---- MODULE Spec2Model ----
(***************************************************************************)
(* Restaurant CRM: the visit ledger (crm/services.py), the segmentation    *)
(* filters (crm/services.py), the outreach pipeline (crm/tasks.py) and the *)
(* handlers that drive them (crm/views.py, crm/internal_views.py).         *)
(* Every database access of a handler is one atomic step; a handler that   *)
(* makes several accesses is a process that other processes interleave     *)
(* with.                                                                   *)
(***************************************************************************)
EXTENDS Integers, Sequences, FiniteSets

VARIABLES
    customers,    \* Customer rows: id -> [exists, restaurant, total_spend_cents, last_visit_at]
    visits,       \* Visit rows: set of [id, customer, visited_at, spend_cents]
    nextVisitId,  \* next primary key of the Visit table
    now,          \* the wall clock (timezone.now())
    lock,         \* row locks on Customer: id -> holder (a record_visit call) or NoProc
    rv,           \* record_visit calls: proc -> [pc, customer, spend_cents, visited_at, row, resp]
    ledger,       \* history: id -> [calls, sum, max, contended] over the committed record_visit calls
    campaigns,    \* Campaign rows: id -> [restaurant, status, segment_type, segment_value, message_template]
    events,       \* OutreachEvent rows: set of [id, campaign, customer, status, sent_at, error_message]
    nextEventId,  \* next primary key of the OutreachEvent table
    runs,         \* run_campaign_task executions: proc -> the task's locals and its history
    runsStarted,  \* number of task executions begun
    lastRun,      \* history: campaign id -> [n, seg, count] of its last completed run
    queue,        \* the task queue: campaign id -> run_campaign_task messages not yet delivered
    req,          \* requests on a campaign: proc -> [pc, view, campaign_id, resp]
    requestsMade  \* number of campaign requests received

ledgerVars == <<customers, visits, nextVisitId, now, lock, rv, ledger>>

viewVars == <<req, requestsMade>>

pipelineVars == <<campaigns, events, nextEventId, runs, runsStarted, lastRun, queue, viewVars>>

vars == <<customers, visits, nextVisitId, now, lock, rv, ledger,
          campaigns, events, nextEventId, runs, runsStarted, lastRun,
          queue, req, requestsMade>>

----------------------------------------------------------------------------
(* Bounds of the model *)

\* Visit rows ever inserted
MaxVisits == 2
\* the clock runs 0..MaxTime
MaxTime == 1
\* executions of run_campaign_task ever begun
MaxRuns == 2
\* campaign requests (run, pause, resume) ever received
MaxRequests == 3

(* Values *)

\* SQL NULL of a nullable DateTimeField
NULL == -1
NoProc == 0

Times == 0..MaxTime
CustomerIds == {1, 2, 3}
RestaurantIds == {1, 2}
\* concurrent record_visit calls
VisitProcs == {1, 2}
\* spend_cents a client may post; the Visit table itself takes any integer
Spends == {-1, 1, 2}

\* segment_value of a campaign: days or cents, any integer
SegmentValues == -1..(MaxTime + 1)

\* SQL NULL of the nullable TextField error_message
NoText == "null"
CampaignIds == {1, 2}
\* a campaign id with no row behind it
MissingCampaign == 3
\* run_campaign_task executions that may overlap
RunProcs == {1, 2}
\* campaign requests that may overlap
ReqProcs == {1, 2}
GoodTemplate == "Hi {first_name}"
\* str.format raises KeyError on this one
BadTemplate == "Hi {name}"
RenderError == "'name'"
SendError == "Simulated email delivery failure"
DatabaseError == "database error"

----------------------------------------------------------------------------
(* Aggregates over the Visit table *)

RECURSIVE SumSpend(_)
SumSpend(S) ==
    IF S = {} THEN 0
    ELSE LET v == CHOOSE x \in S : TRUE
         IN  v.spend_cents + SumSpend(S \ {v})

VisitsOf(c) == {v \in visits : v.customer = c}

MaxVisitedAt(S) ==
    IF S = {} THEN NULL
    ELSE CHOOSE t \in {v.visited_at : v \in S} :
             \A v \in S : v.visited_at <= t

----------------------------------------------------------------------------
(* crm/serializers.py *)

\* (the serializer without its min_value)
AddVisitSerializerNoMin(spend_cents) == TRUE

\* AddVisitSerializer: spend_cents = IntegerField(min_value=0)
AddVisitSerializer(spend_cents) == spend_cents >= 0

----------------------------------------------------------------------------
(* crm/services.py: record_visit *)

IdleCall == [pc |-> "idle", customer |-> 0, spend_cents |-> 0, visited_at |-> NULL,
             row |-> [total_spend_cents |-> 0, last_visit_at |-> NULL], resp |-> 0]

\* (a plain get, which takes no lock)
SelectForUpdateNoLock(p, c) == lock' = lock

\* Customer.objects.select_for_update().get(pk=...) : waits for the row lock
SelectForUpdate(p, c) ==
    /\ lock[c] = NoProc
    /\ lock' = [lock EXCEPT ![c] = p]

\* (last_visit_at overwritten by every visit)
LastVisitAlways(last_visit_at, visited_at) == visited_at

\* the new last_visit_at: moved only when null or strictly earlier
LastVisitAfter(last_visit_at, visited_at) ==
    IF last_visit_at = NULL \/ visited_at > last_visit_at
    THEN visited_at
    ELSE last_visit_at

\* the calls that have begun and not yet committed
InFlight == {q \in VisitProcs : rv[q].pc # "idle"}

\* record_visit is entered: visited_at = NULL stands for the omitted argument,
\* defaulted to timezone.now() before the row is locked
RecordVisitBegin(p, c, spend_cents, visited_at) ==
    /\ rv[p].pc = "idle"
    /\ customers[c].exists
    /\ nextVisitId + Cardinality(InFlight) <= MaxVisits
    /\ rv' = [rv EXCEPT ![p] =
                [IdleCall EXCEPT !.pc = "waiting", !.customer = c,
                                 !.spend_cents = spend_cents,
                                 !.visited_at = IF visited_at = NULL THEN now ELSE visited_at]]
    /\ UNCHANGED <<customers, visits, nextVisitId, now, lock, ledger, pipelineVars>>

\* the locked read of the customer row
RecordVisitLock(p) ==
    /\ rv[p].pc = "waiting"
    /\ SelectForUpdate(p, rv[p].customer)
    /\ rv' = [rv EXCEPT ![p].pc = "locked",
                        ![p].row = [total_spend_cents |-> customers[rv[p].customer].total_spend_cents,
                                    last_visit_at |-> customers[rv[p].customer].last_visit_at]]
    /\ UNCHANGED <<customers, visits, nextVisitId, now, ledger, pipelineVars>>

\* Visit.objects.create, the update of the totals, customer.save and the
\* commit of the transaction, which makes all of it visible and frees the lock
RecordVisitCommit(p) ==
    /\ rv[p].pc = "locked"
    /\ LET c == rv[p].customer
           s == rv[p].spend_cents
           t == rv[p].visited_at
           h == ledger[c]
       IN  /\ visits' = visits \cup
                  {[id |-> nextVisitId, customer |-> c, visited_at |-> t, spend_cents |-> s]}
           /\ nextVisitId' = nextVisitId + 1
           /\ customers' = [customers EXCEPT
                  ![c].total_spend_cents = rv[p].row.total_spend_cents + s,
                  ![c].last_visit_at = LastVisitAfter(rv[p].row.last_visit_at, t)]
           /\ lock' = [lock EXCEPT ![c] = IF lock[c] = p THEN NoProc ELSE lock[c]]
           /\ ledger' = [ledger EXCEPT ![c] =
                  [calls |-> h.calls + 1, sum |-> h.sum + s,
                   max |-> IF h.max = NULL \/ t > h.max THEN t ELSE h.max,
                   contended |-> h.contended \/
                       \E q \in VisitProcs \ {p} : rv[q].pc # "idle" /\ rv[q].customer = c]]
    /\ rv' = [rv EXCEPT ![p] = [IdleCall EXCEPT !.resp = 201]]
    /\ UNCHANGED <<now, pipelineVars>>

----------------------------------------------------------------------------
(* crm/views.py: CustomerViewSet.add_visit *)

AddVisit(p, c, spend_cents, visited_at) ==
    IF AddVisitSerializer(spend_cents)
    THEN RecordVisitBegin(p, c, spend_cents, visited_at)
    ELSE /\ rv[p].pc = "idle"
         /\ customers[c].exists
         /\ rv' = [rv EXCEPT ![p].resp = 400]
         /\ UNCHANGED <<customers, visits, nextVisitId, now, lock, ledger, pipelineVars>>

----------------------------------------------------------------------------
(* crm/views.py: VisitViewSet, a ModelViewSet over VisitSerializer *)

VisitCreate(c, visited_at, spend_cents) ==
    /\ nextVisitId + Cardinality(InFlight) <= MaxVisits
    /\ customers[c].exists
    /\ visits' = visits \cup
           {[id |-> nextVisitId, customer |-> c, visited_at |-> visited_at,
             spend_cents |-> spend_cents]}
    /\ nextVisitId' = nextVisitId + 1
    /\ UNCHANGED <<customers, now, lock, rv, ledger, pipelineVars>>

VisitUpdate(v, visited_at, spend_cents) ==
    /\ v \in visits
    /\ visits' = (visits \ {v}) \cup
           {[v EXCEPT !.visited_at = visited_at, !.spend_cents = spend_cents]}
    /\ visits' # visits
    /\ UNCHANGED <<customers, nextVisitId, now, lock, rv, ledger, pipelineVars>>

VisitDestroy(v) ==
    /\ v \in visits
    /\ visits' = visits \ {v}
    /\ UNCHANGED <<customers, nextVisitId, now, lock, rv, ledger, pipelineVars>>

----------------------------------------------------------------------------
(* crm/views.py: CustomerViewSet, a ModelViewSet over CustomerSerializer;    *)
(* total_spend_cents is read-only there, last_visit_at is not               *)

CustomerCreate(c, restaurant, last_visit_at) ==
    /\ ~customers[c].exists
    /\ customers' = [customers EXCEPT ![c] =
           [exists |-> TRUE, restaurant |-> restaurant,
            total_spend_cents |-> 0, last_visit_at |-> last_visit_at]]
    /\ UNCHANGED <<visits, nextVisitId, now, lock, rv, ledger, pipelineVars>>

\* the UPDATE waits for a row lock held by record_visit
CustomerUpdate(c, last_visit_at) ==
    /\ customers[c].exists
    /\ lock[c] = NoProc
    /\ customers[c].last_visit_at # last_visit_at
    /\ customers' = [customers EXCEPT ![c].last_visit_at = last_visit_at]
    /\ UNCHANGED <<visits, nextVisitId, now, lock, rv, ledger, pipelineVars>>

----------------------------------------------------------------------------
(* the clock *)

Tick ==
    /\ now < MaxTime
    /\ now' = now + 1
    /\ UNCHANGED <<customers, visits, nextVisitId, lock, rv, ledger, pipelineVars>>

----------------------------------------------------------------------------
(* crm/services.py: segmentation *)

\* (the cutoff itself counted as inactive)
inactive_days_lte(queryset, days) ==
    LET cutoff_date == now - days
    IN  {c \in queryset :
            \/ customers[c].last_visit_at # NULL /\ customers[c].last_visit_at <= cutoff_date
            \/ customers[c].last_visit_at = NULL}

\* Q(last_visit_at__lt=cutoff_date) | Q(last_visit_at__isnull=True); in SQL
\* a NULL last_visit_at never satisfies the comparison
inactive_days(queryset, days) ==
    LET cutoff_date == now - days
    IN  {c \in queryset :
            \/ customers[c].last_visit_at # NULL /\ customers[c].last_visit_at < cutoff_date
            \/ customers[c].last_visit_at = NULL}

\* (a strict comparison)
high_spenders_gt(queryset, min_spend_cents) ==
    {c \in queryset : customers[c].total_spend_cents > min_spend_cents}

\* queryset.filter(total_spend_cents__gte=min_spend_cents)
high_spenders(queryset, min_spend_cents) ==
    {c \in queryset : customers[c].total_spend_cents >= min_spend_cents}

----------------------------------------------------------------------------
(* crm/tasks.py: run_campaign_task *)

NoCampaign == [restaurant |-> 0, status |-> "none", segment_type |-> "none",
               segment_value |-> 0, message_template |-> "none"]

NoEvent == [id |-> 0, campaign |-> 0, customer |-> 0, status |-> "none",
            sent_at |-> NULL, error_message |-> NoText]

IdleRun == [pc |-> "idle", campaign_id |-> 0, campaign |-> NoCampaign,
            customer_ids |-> <<>>, i |-> 0, batch |-> <<>>, event |-> NoEvent,
            total_processed |-> 0, total_sent |-> 0, total_failed |-> 0,
            outcome |-> "none",
            \* history of the execution
            escaped |-> FALSE, before |-> {}, start_status |-> "none",
            snap |-> <<>>, snap_now |-> 0, prev |-> [n |-> 0, seg |-> {}, count |-> 0],
            attempted |-> {}, sent_to |-> {}, failed_at |-> {}, pause_written |-> FALSE,
            statuses |-> <<>>, pause_requested |-> FALSE, collided |-> FALSE]

\* batch_size = 200 in the source, scaled down to the model's customers
batch_size == 2

Min(a, b) == IF a < b THEN a ELSE b

\* Customer.Meta.ordering = ['-created_at']: newest row first
RECURSIVE OrderDesc(_)
OrderDesc(S) ==
    IF S = {} THEN <<>>
    ELSE LET m == CHOOSE x \in S : \A y \in S : y <= x
         IN  <<m>> \o OrderDesc(S \ {m})

EventsOf(cid) == {e \in events : e.campaign = cid}

\* (the customers of every restaurant)
AllCustomers(restaurant) == {c \in CustomerIds : customers[c].exists}

\* Customer.objects.filter(restaurant=campaign.restaurant)
RestaurantCustomers(restaurant) ==
    {c \in CustomerIds : customers[c].exists /\ customers[c].restaurant = restaurant}

\* (a segmentation that falls back to every customer of the restaurant)
SegmentOrEverybody(campaign) ==
    IF campaign.segment_type = "inactive_days"
    THEN [known |-> TRUE,
          ids |-> inactive_days(RestaurantCustomers(campaign.restaurant), campaign.segment_value)]
    ELSE IF campaign.segment_type = "high_spenders"
    THEN [known |-> TRUE,
          ids |-> high_spenders(RestaurantCustomers(campaign.restaurant), campaign.segment_value)]
    ELSE [known |-> TRUE, ids |-> RestaurantCustomers(campaign.restaurant)]

\* the segment of a campaign; an unknown segment_type is logged and ends the task
Segment(campaign) ==
    IF campaign.segment_type = "inactive_days"
    THEN [known |-> TRUE,
          ids |-> inactive_days(RestaurantCustomers(campaign.restaurant), campaign.segment_value)]
    ELSE IF campaign.segment_type = "high_spenders"
    THEN [known |-> TRUE,
          ids |-> high_spenders(RestaurantCustomers(campaign.restaurant), campaign.segment_value)]
    ELSE [known |-> FALSE, ids |-> {}]

\* (a create without the lookup)
LookupNothing(cid, c) == {}

\* the lookup half of OutreachEvent.objects.get_or_create(campaign, customer)
Lookup(cid, c) == {e \in events : e.campaign = cid /\ e.customer = c}

\* (no event is skipped)
AlreadyProcessedNever(status) == FALSE

\* `if event.status in ['sent', 'skipped']: continue`
AlreadyProcessed(status) == status \in {"sent", "skipped"}

\* message_template.format(first_name=...) succeeds
Renders(message_template) == message_template = GoodTemplate

\* the loop moves on to the next customer of the batch, or to the next batch
Continue(run) ==
    [run EXCEPT !.batch = Tail(run.batch),
                !.event = NoEvent,
                !.pc = IF Tail(run.batch) = <<>> THEN "batch" ELSE "event"]

\* (the failure leaves the loop)
Abort(run) == [run EXCEPT !.pc = "except"]

\* the inner `except Exception` records the failure and the loop goes on
AfterEventFailure(run) == Continue(run)

\* (a save that leaves error_message out of update_fields)
SaveEventKeepError(id, status, sent_at, error_message) ==
    {IF e.id = id
     THEN [e EXCEPT !.status = status, !.sent_at = sent_at]
     ELSE e : e \in events}

\* event.save(update_fields=['status', 'sent_at', 'error_message']):
\* UPDATE ... WHERE id = event.id, with the values the task holds
SaveEvent(id, status, sent_at, error_message) ==
    {IF e.id = id
     THEN [e EXCEPT !.status = status, !.sent_at = sent_at, !.error_message = error_message]
     ELSE e : e \in events}

\* the inner except: event.status = 'failed'; event.error_message = str(e);
\* event.save(update_fields=['status', 'error_message'])
SaveEventFailed(id, error_message) ==
    {IF e.id = id
     THEN [e EXCEPT !.status = "failed", !.error_message = error_message]
     ELSE e : e \in events}

\* (an outer except that leaves the status alone)
StatusOnErrorKept(status) == status

\* the status the outer `except Exception` writes
StatusOnError(status) == "paused"

\* the status written after the last batch
StatusOnCompletion == "completed"

\* the customers the execution resolved
RunSegment(run) == {run.customer_ids[k] : k \in 1..Len(run.customer_ids)}

\* the task is entered with a campaign id
StartRun(r, cid) ==
    /\ runs[r].pc \in {"idle", "done"}
    /\ runsStarted < MaxRuns
    /\ runsStarted' = runsStarted + 1
    /\ runs' = [runs EXCEPT ![r] =
           [IdleRun EXCEPT !.pc = "load", !.campaign_id = cid, !.before = events,
                           !.start_status = IF cid \in CampaignIds
                                            THEN campaigns[cid].status ELSE "none",
                           !.prev = IF cid \in CampaignIds
                                    THEN lastRun[cid] ELSE IdleRun.prev,
                           !.statuses = [k \in CampaignIds |-> campaigns[k].status]]]
    /\ UNCHANGED <<ledgerVars, viewVars, campaigns, events, nextEventId, lastRun>>

\* the task called directly, as the tests call it
CallTask(r, cid) ==
    /\ StartRun(r, cid)
    /\ UNCHANGED queue

\* a worker takes a message off the queue and runs the task
Deliver(r) ==
    \E cid \in CampaignIds :
        /\ queue[cid] > 0
        /\ StartRun(r, cid)
        /\ queue' = [queue EXCEPT ![cid] = @ - 1]

\* (a missing campaign that is not noticed)
DoesNotExistIgnored(run) == [run EXCEPT !.pc = "segment"]

\* `except Campaign.DoesNotExist`: the error is logged and returned to the
\* caller as {'error': 'Campaign ... not found'}
DoesNotExist(run) == [run EXCEPT !.pc = "done", !.outcome = "not_found"]

\* Campaign.objects.select_related('restaurant').get(pk=campaign_id)
LoadCampaign(r) ==
    /\ runs[r].pc = "load"
    /\ runs' = [runs EXCEPT ![r] =
           IF runs[r].campaign_id \in CampaignIds
           THEN [@ EXCEPT !.pc = "segment", !.campaign = campaigns[runs[r].campaign_id]]
           ELSE DoesNotExist(@)]
    /\ UNCHANGED <<ledgerVars, queue, viewVars, campaigns, events, nextEventId, runsStarted, lastRun>>

\* the segmentation and list(customers_queryset.values_list('id', flat=True))
ResolveSegment(r) ==
    /\ runs[r].pc = "segment"
    /\ LET seg == Segment(runs[r].campaign)
       IN  runs' = [runs EXCEPT ![r] =
               IF seg.known
               THEN [@ EXCEPT !.pc = "batch", !.customer_ids = OrderDesc(seg.ids), !.i = 0,
                              !.snap = customers, !.snap_now = now]
               ELSE [@ EXCEPT !.pc = "done", !.outcome = "unknown_segment"]]
    /\ UNCHANGED <<ledgerVars, queue, viewVars, campaigns, events, nextEventId, runsStarted, lastRun>>

\* for i in range(0, len(customer_ids), batch_size): the batch is fetched
NextBatch(r) ==
    /\ runs[r].pc = "batch"
    /\ LET n == Len(runs[r].customer_ids)
           i == runs[r].i
       IN  runs' = [runs EXCEPT ![r] =
               IF i >= n
               THEN [@ EXCEPT !.pc = "final"]
               ELSE [@ EXCEPT !.pc = "event", !.i = i + batch_size,
                              !.batch = SubSeq(runs[r].customer_ids, i + 1,
                                               Min(i + batch_size, n))]]
    /\ UNCHANGED <<ledgerVars, queue, viewVars, campaigns, events, nextEventId, runsStarted, lastRun>>

\* get_or_create for the next customer of the batch, and the test of the
\* status that was read
GetOrCreate(r) ==
    /\ runs[r].pc = "event"
    /\ LET cid == runs[r].campaign_id
           c == Head(runs[r].batch)
           found == Lookup(cid, c)
           created == [id |-> nextEventId, campaign |-> cid, customer |-> c,
                       status |-> "queued", sent_at |-> NULL, error_message |-> NoText]
           event == IF found # {} THEN CHOOSE e \in found : TRUE ELSE created
       IN  /\ events' = IF found # {} THEN events ELSE events \cup {created}
           /\ nextEventId' = IF found # {} THEN nextEventId ELSE nextEventId + 1
           /\ runs' = [runs EXCEPT ![r] =
                  IF AlreadyProcessed(event.status)
                  THEN Continue(@)
                  ELSE [@ EXCEPT !.pc = "process", !.event = event]]
    /\ UNCHANGED <<ledgerVars, queue, viewVars, campaigns, runsStarted, lastRun>>

\* the task goes on with the event it holds, unless the status makes it skip
Fetched(run, event) ==
    IF AlreadyProcessed(event.status)
    THEN Continue(run)
    ELSE [run EXCEPT !.pc = "process", !.event = event]

\* (a table without the constraint)
unique_together_absent(cid, c) == TRUE

\* OutreachEvent.Meta.unique_together = [['campaign', 'customer']]: the
\* insert of a second row with the key is refused
unique_together(cid, c) == Lookup(cid, c) = {}

\* get_or_create while other executions write the table, first half: the get
GetEvent(r) ==
    /\ runs[r].pc = "event"
    /\ LET found == Lookup(runs[r].campaign_id, Head(runs[r].batch))
       IN  runs' = [runs EXCEPT ![r] =
               IF found # {}
               THEN Fetched(@, CHOOSE e \in found : TRUE)
               ELSE [@ EXCEPT !.pc = "create"]]
    /\ UNCHANGED <<ledgerVars, queue, viewVars, campaigns, events, nextEventId, runsStarted, lastRun>>

\* second half: the create, when the get found nothing. The insert is refused
\* when another execution has inserted the key meanwhile; get_or_create then
\* catches the IntegrityError and returns the row that is there
CreateEvent(r) ==
    /\ runs[r].pc = "create"
    /\ LET cid == runs[r].campaign_id
           c == Head(runs[r].batch)
           created == [id |-> nextEventId, campaign |-> cid, customer |-> c,
                       status |-> "queued", sent_at |-> NULL, error_message |-> NoText]
       IN  IF unique_together(cid, c)
           THEN /\ events' = events \cup {created}
                /\ nextEventId' = nextEventId + 1
                /\ runs' = [runs EXCEPT ![r] = Fetched(@, created)]
           ELSE /\ UNCHANGED <<events, nextEventId>>
                /\ runs' = [runs EXCEPT ![r] =
                       Fetched([@ EXCEPT !.collided = TRUE],
                               CHOOSE e \in Lookup(cid, c) : TRUE)]
    /\ UNCHANGED <<ledgerVars, queue, viewVars, campaigns, runsStarted, lastRun>>

\* message_template.format raises: the inner except marks the event failed
RenderFailure(r) ==
    /\ runs[r].pc = "process"
    /\ ~Renders(runs[r].campaign.message_template)
    /\ LET e == runs[r].event
       IN  /\ events' = SaveEventFailed(e.id, RenderError)
           /\ runs' = [runs EXCEPT ![r] =
                  AfterEventFailure(
                      [@ EXCEPT !.total_failed = @ + 1, !.total_processed = @ + 1,
                                !.attempted = @ \cup {e.customer},
                                !.failed_at = @ \cup {e.customer}])]
    /\ UNCHANGED <<ledgerVars, queue, viewVars, campaigns, nextEventId, runsStarted, lastRun>>

\* the send succeeds (random.random() < 0.9)
SendSuccess(r) ==
    /\ runs[r].pc = "process"
    /\ Renders(runs[r].campaign.message_template)
    /\ LET e == runs[r].event
       IN  /\ events' = SaveEvent(e.id, "sent", now, NoText)
           /\ runs' = [runs EXCEPT ![r] =
                  Continue([@ EXCEPT !.total_sent = @ + 1, !.total_processed = @ + 1,
                                     !.attempted = @ \cup {e.customer},
                                     !.sent_to = @ \cup {e.customer}])]
    /\ UNCHANGED <<ledgerVars, queue, viewVars, campaigns, nextEventId, runsStarted, lastRun>>

\* the send fails
SendFailure(r) ==
    /\ runs[r].pc = "process"
    /\ Renders(runs[r].campaign.message_template)
    /\ LET e == runs[r].event
       IN  /\ events' = SaveEvent(e.id, "failed", e.sent_at, SendError)
           /\ runs' = [runs EXCEPT ![r] =
                  AfterEventFailure(
                      [@ EXCEPT !.total_failed = @ + 1, !.total_processed = @ + 1,
                                !.attempted = @ \cup {e.customer},
                                !.sent_to = @ \cup {e.customer},
                                !.failed_at = @ \cup {e.customer}])]
    /\ UNCHANGED <<ledgerVars, queue, viewVars, campaigns, nextEventId, runsStarted, lastRun>>

\* event.save raises after the send was decided (sent or not): the inner
\* except marks the event failed and counts it again
SaveError(r, sent) ==
    /\ runs[r].pc = "process"
    /\ Renders(runs[r].campaign.message_template)
    /\ LET e == runs[r].event
       IN  /\ events' = SaveEventFailed(e.id, DatabaseError)
           /\ runs' = [runs EXCEPT ![r] =
                  AfterEventFailure(
                      [@ EXCEPT !.total_sent = IF sent THEN @ + 1 ELSE @,
                                !.total_failed = IF sent THEN @ + 1 ELSE @ + 2,
                                !.total_processed = @ + 1,
                                !.attempted = @ \cup {e.customer},
                                !.sent_to = @ \cup {e.customer},
                                !.failed_at = @ \cup {e.customer}])]
    /\ UNCHANGED <<ledgerVars, queue, viewVars, campaigns, nextEventId, runsStarted, lastRun>>

\* event.save raises inside the inner except (after a failed render or a
\* failed save): the error leaves the loop
EventErrorEscapes(r) ==
    /\ runs[r].pc = "process"
    /\ runs' = [runs EXCEPT ![r].pc = "except", ![r].escaped = TRUE,
                            ![r].attempted = @ \cup {runs[r].event.customer}]
    /\ UNCHANGED <<ledgerVars, queue, viewVars, campaigns, events, nextEventId, runsStarted, lastRun>>

\* a database error outside the inner try: loading the campaign, resolving the
\* segment, fetching a batch, get_or_create, or the final campaign.save
RunLevelError(r) ==
    /\ runs[r].pc \in {"load", "segment", "batch", "event", "create", "final"}
    \* an unknown segment_type returns before any query is evaluated
    /\ runs[r].pc = "segment" => Segment(runs[r].campaign).known
    /\ runs' = [runs EXCEPT ![r].pc = "except", ![r].escaped = TRUE]
    /\ UNCHANGED <<ledgerVars, queue, viewVars, campaigns, events, nextEventId, runsStarted, lastRun>>

\* campaign.status = 'completed'; campaign.save(update_fields=['status']);
\* the counts are returned
FinishRun(r) ==
    /\ runs[r].pc = "final"
    /\ LET cid == runs[r].campaign_id
       IN  /\ campaigns' = [campaigns EXCEPT ![cid].status = StatusOnCompletion]
           /\ lastRun' = [lastRun EXCEPT ![cid] =
                  [n |-> @.n + 1,
                   seg |-> RunSegment(runs[r]),
                   count |-> Cardinality(EventsOf(cid))]]
    /\ runs' = [runs EXCEPT ![r].pc = "done", ![r].outcome = "completed"]
    /\ UNCHANGED <<ledgerVars, queue, viewVars, events, nextEventId, runsStarted>>

\* the outer `except Exception`: the campaign is set to paused, a failure of
\* that write (or a campaign that is gone) is swallowed, the error is re-raised
HandleError(r, written) ==
    /\ runs[r].pc = "except"
    /\ LET cid == runs[r].campaign_id
           ok == written /\ cid \in CampaignIds
       IN  /\ campaigns' = IF ok
                           THEN [campaigns EXCEPT ![cid].status = StatusOnError(@)]
                           ELSE campaigns
           /\ runs' = [runs EXCEPT ![r].pc = "done", ![r].outcome = "raised",
                                   ![r].pause_written = ok]
    /\ UNCHANGED <<ledgerVars, queue, viewVars, events, nextEventId, runsStarted, lastRun>>

----------------------------------------------------------------------------
(* crm/views.py: CampaignViewSet.run; crm/internal_views.py: campaign_run, *)
(* campaign_pause, campaign_resume. A request reads the campaign, decides   *)
(* on the status it read and, when it accepts, writes the new status in a   *)
(* second access to the database.                                           *)

IdleRequest == [pc |-> "idle", view |-> "none", campaign_id |-> 0, resp |-> "none"]

\* (a trigger accepted whatever the status)
TriggerAllowedAlways(status) == TRUE

\* `if campaign.status not in ['draft', 'paused']` rejects the trigger
TriggerAllowed(status) == status \in {"draft", "paused"}

\* `if campaign.status == 'running'`
PauseAllowed(status) == status = "running"

\* `if campaign.status == 'paused'`
ResumeAllowed(status) == status = "paused"

\* the campaign is read and its status tested; a rejected request answers
\* with the error, an accepted trigger or resume calls
\* run_campaign_task.delay before it writes the status
Receive(q, view, cid, accepted, enqueue) ==
    /\ req[q].pc = "idle"
    /\ requestsMade < MaxRequests
    /\ requestsMade' = requestsMade + 1
    /\ req' = [req EXCEPT ![q] =
           [pc |-> IF accepted THEN "save" ELSE "idle",
            view |-> view, campaign_id |-> cid,
            resp |-> IF accepted THEN "none" ELSE "rejected"]]
    /\ queue' = IF accepted /\ enqueue THEN [queue EXCEPT ![cid] = @ + 1] ELSE queue
    /\ UNCHANGED <<ledgerVars, campaigns, events, nextEventId, runs, runsStarted, lastRun>>

\* POST /api/campaigns/{id}/run/
CampaignViewSet_run(q, cid) ==
    Receive(q, "api_run", cid, TriggerAllowed(campaigns[cid].status), TRUE)

campaign_run(q, cid) ==
    Receive(q, "run", cid, TriggerAllowed(campaigns[cid].status), TRUE)

campaign_pause(q, cid) ==
    Receive(q, "pause", cid, PauseAllowed(campaigns[cid].status), FALSE)

campaign_resume(q, cid) ==
    Receive(q, "resume", cid, ResumeAllowed(campaigns[cid].status), TRUE)

\* the executions of the task on a campaign that have begun and not ended
Running(cid) == {r \in RunProcs : runs[r].pc \notin {"idle", "done"} /\ runs[r].campaign_id = cid}

\* campaign.status = 'running' (or 'paused', in campaign_pause);
\* campaign.save(update_fields=['status'])
SaveStatus(q) ==
    /\ req[q].pc = "save"
    /\ LET cid == req[q].campaign_id
           paused == req[q].view = "pause"
       IN  /\ campaigns' = [campaigns EXCEPT
                  ![cid].status = IF paused THEN "paused" ELSE "running"]
           \* history: the executions in flight when the pause was written
           /\ runs' = [r \in RunProcs |->
                  IF paused /\ r \in Running(cid)
                  THEN [runs[r] EXCEPT !.pause_requested = TRUE]
                  ELSE runs[r]]
    /\ req' = [req EXCEPT ![q] = [IdleRequest EXCEPT !.resp = "accepted"]]
    /\ UNCHANGED <<ledgerVars, events, nextEventId, runsStarted, lastRun, queue, requestsMade>>

----------------------------------------------------------------------------
(* The ledger on its own: customers 1 and 2 exist and have never visited *)

InitLedger ==
    /\ customers = [c \in CustomerIds |->
           [exists |-> c # 3, restaurant |-> 1,
            total_spend_cents |-> 0, last_visit_at |-> NULL]]
    /\ visits = {}
    /\ nextVisitId = 1
    /\ now = 0
    /\ lock = [c \in CustomerIds |-> NoProc]
    /\ rv = [p \in VisitProcs |-> IdleCall]
    /\ ledger = [c \in CustomerIds |-> [calls |-> 0, sum |-> 0, max |-> NULL, contended |-> FALSE]]
    /\ campaigns = [k \in CampaignIds |->
           [restaurant |-> 1, status |-> "draft", segment_type |-> "inactive_days",
            segment_value |-> 1, message_template |-> GoodTemplate]]
    /\ events = {}
    /\ nextEventId = 1
    /\ runs = [r \in RunProcs |-> IdleRun]
    /\ runsStarted = 0
    /\ lastRun = [k \in CampaignIds |-> IdleRun.prev]
    /\ queue = [k \in CampaignIds |-> 0]
    /\ req = [q \in ReqProcs |-> IdleRequest]
    /\ requestsMade = 0

\* record_visit reached through add_visit only
NextVisits ==
    \/ \E p \in VisitProcs, c \in CustomerIds, s \in Spends, t \in Times \cup {NULL} :
           AddVisit(p, c, s, t)
    \/ \E p \in VisitProcs : RecordVisitLock(p)
    \/ \E p \in VisitProcs : RecordVisitCommit(p)
    \/ Tick

SpecVisits == InitLedger /\ [][NextVisits]_vars

\* every operation of the API on customers and visits, one request at a time
\* (on customer 1, and on customer 3 once it is created)
LedgerCustomers == {1, 3}

NextLedger ==
    \/ \E c \in LedgerCustomers, s \in Spends, t \in Times \cup {NULL} : AddVisit(1, c, s, t)
    \/ RecordVisitLock(1)
    \/ RecordVisitCommit(1)
    \/ \E c \in LedgerCustomers, t \in Times, s \in Spends : VisitCreate(c, t, s)
    \/ \E v \in visits, t \in Times, s \in Spends : VisitUpdate(v, t, s)
    \/ \E v \in visits : VisitDestroy(v)
    \/ \E c \in LedgerCustomers, t \in Times \cup {NULL} : CustomerCreate(c, 2, t)
    \/ \E c \in LedgerCustomers, t \in Times \cup {NULL} : CustomerUpdate(c, t)
    \/ Tick

SpecLedger == InitLedger /\ [][NextLedger]_vars

----------------------------------------------------------------------------
(* The pipeline: restaurant 1 has customer 1, who never visited, and customer 2, *)
(* who visited once at time 0 and spent 1; customer 3 belongs to restaurant 2.  *)
(* Campaign 1 is a draft of restaurant 1; campaign 2 was completed earlier and  *)
(* sent to customer 2. Customer 1 may have been marked skipped for campaign 1   *)
(* outside the pipeline.                                                        *)

SentEarlier == [id |-> 1, campaign |-> 2, customer |-> 2, status |-> "sent",
                sent_at |-> 0, error_message |-> NoText]

SkippedEarlier == [id |-> 2, campaign |-> 1, customer |-> 1, status |-> "skipped",
                   sent_at |-> NULL, error_message |-> NoText]

\* segment_type (the two known kinds and an unknown one), segment_value and
\* message_template of campaign 1
CampaignConfigs ==
    {<<"inactive_days", 0, GoodTemplate>>, <<"inactive_days", 1, GoodTemplate>>,
     <<"inactive_days", 0, BadTemplate>>, <<"high_spenders", 1, GoodTemplate>>,
     <<"vip", 0, GoodTemplate>>}

InitPipeline ==
    /\ customers = [c \in CustomerIds |->
           [exists |-> TRUE,
            restaurant |-> IF c = 3 THEN 2 ELSE 1,
            total_spend_cents |-> IF c = 2 THEN 1 ELSE 0,
            last_visit_at |-> IF c = 2 THEN 0 ELSE NULL]]
    /\ visits = {[id |-> 1, customer |-> 2, visited_at |-> 0, spend_cents |-> 1]}
    /\ nextVisitId = 2
    /\ now = 0
    /\ lock = [c \in CustomerIds |-> NoProc]
    /\ rv = [p \in VisitProcs |-> IdleCall]
    /\ ledger = [c \in CustomerIds |->
           IF c = 2 THEN [calls |-> 1, sum |-> 1, max |-> 0, contended |-> FALSE]
           ELSE [calls |-> 0, sum |-> 0, max |-> NULL, contended |-> FALSE]]
    /\ \E cfg \in CampaignConfigs :
         LET t == cfg[1]  v == cfg[2]  m == cfg[3] IN
           campaigns = [k \in CampaignIds |->
               IF k = 1
               THEN [restaurant |-> 1, status |-> "draft", segment_type |-> t,
                     segment_value |-> v, message_template |-> m]
               ELSE [restaurant |-> 1, status |-> "completed",
                     segment_type |-> "inactive_days", segment_value |-> 0,
                     message_template |-> GoodTemplate]]
    /\ \/ events = {SentEarlier} /\ nextEventId = 2
       \/ events = {SentEarlier, SkippedEarlier} /\ nextEventId = 3
    /\ runs = [r \in RunProcs |-> IdleRun]
    /\ runsStarted = 0
    /\ lastRun = [k \in CampaignIds |-> IdleRun.prev]
    /\ queue = [k \in CampaignIds |-> 0]
    /\ req = [q \in ReqProcs |-> IdleRequest]
    /\ requestsMade = 0

\* the task is run for campaign 1 or for an id that has no campaign, one
\* execution at a time, while the clock advances and customer 1 pays its
\* first visit
NextSeq ==
    \/ \E cid \in {1, MissingCampaign} : CallTask(1, cid)
    \/ LoadCampaign(1)
    \/ ResolveSegment(1)
    \/ NextBatch(1)
    \/ GetOrCreate(1)
    \/ RenderFailure(1)
    \/ SendSuccess(1)
    \/ SendFailure(1)
    \/ \E sent \in BOOLEAN : SaveError(1, sent)
    \/ EventErrorEscapes(1)
    \/ RunLevelError(1)
    \/ FinishRun(1)
    \/ \E written \in BOOLEAN : HandleError(1, written)
    \/ ledger[1].calls = 0 /\ AddVisit(1, 1, 1, NULL)
    \/ RecordVisitLock(1)
    \/ RecordVisitCommit(1)
    \/ Tick

SpecSeq == InitPipeline /\ [][NextSeq]_vars

----------------------------------------------------------------------------
(* Requests and the worker: restaurant 1 has three customers who never     *)
(* visited, campaign 1 is a draft that targets all of them (two batches).  *)
(* Requests on campaign 1 arrive in any order and may overlap; one worker  *)
(* runs the tasks they enqueue.                                            *)

InitViews ==
    /\ customers = [c \in CustomerIds |->
           [exists |-> TRUE, restaurant |-> 1,
            total_spend_cents |-> 0, last_visit_at |-> NULL]]
    /\ visits = {}
    /\ nextVisitId = 1
    /\ now = 0
    /\ lock = [c \in CustomerIds |-> NoProc]
    /\ rv = [p \in VisitProcs |-> IdleCall]
    /\ ledger = [c \in CustomerIds |-> [calls |-> 0, sum |-> 0, max |-> NULL, contended |-> FALSE]]
    /\ campaigns = [k \in CampaignIds |->
           [restaurant |-> 1, status |-> "draft", segment_type |-> "inactive_days",
            segment_value |-> 0, message_template |-> GoodTemplate]]
    /\ events = {}
    /\ nextEventId = 1
    /\ runs = [r \in RunProcs |-> IdleRun]
    /\ runsStarted = 0
    /\ lastRun = [k \in CampaignIds |-> IdleRun.prev]
    /\ queue = [k \in CampaignIds |-> 0]
    /\ req = [q \in ReqProcs |-> IdleRequest]
    /\ requestsMade = 0

\* a new request is served by the first request process that is free
FreeRequest ==
    IF req[1].pc = "idle" THEN {1} ELSE {q \in ReqProcs : req[q].pc = "idle"}

NextViews ==
    \/ \E q \in FreeRequest : CampaignViewSet_run(q, 1)
    \/ \E q \in FreeRequest : campaign_run(q, 1)
    \/ \E q \in FreeRequest : campaign_pause(q, 1)
    \/ \E q \in FreeRequest : campaign_resume(q, 1)
    \/ \E q \in ReqProcs : SaveStatus(q)
    \/ Deliver(1)
    \/ LoadCampaign(1)
    \/ ResolveSegment(1)
    \/ NextBatch(1)
    \/ GetOrCreate(1)
    \/ SendSuccess(1)
    \/ RunLevelError(1)
    \/ FinishRun(1)
    \/ HandleError(1, TRUE)

SpecViews == InitViews /\ [][NextViews]_vars

----------------------------------------------------------------------------
(* Requests and the worker under fair scheduling: a request accepted writes *)
(* its status, the worker takes every message enqueued, and an execution     *)
(* of the task runs to its end. Requests arrive when their senders choose,   *)
(* and a database error may or may not happen. A trigger or resume is sent   *)
(* only while the worker has executions left for it.                        *)

\* a step of an execution of the task, the database working
RunStep(r) ==
    \/ LoadCampaign(r)
    \/ ResolveSegment(r)
    \/ NextBatch(r)
    \/ GetOrCreate(r)
    \/ SendSuccess(r)
    \/ FinishRun(r)
    \/ HandleError(r, TRUE)

WorkerFree == queue[1] + runsStarted < MaxRuns

NextLive ==
    \/ WorkerFree /\ \E q \in FreeRequest : CampaignViewSet_run(q, 1)
    \/ WorkerFree /\ \E q \in FreeRequest : campaign_run(q, 1)
    \/ WorkerFree /\ \E q \in FreeRequest : campaign_resume(q, 1)
    \/ \E q \in ReqProcs : SaveStatus(q)
    \/ Deliver(1)
    \/ RunStep(1)
    \/ RunLevelError(1)

Fairness ==
    /\ \A q \in ReqProcs : WF_vars(SaveStatus(q))
    /\ WF_vars(Deliver(1))
    /\ WF_vars(RunStep(1))

SpecLive == InitViews /\ [][NextLive]_vars /\ Fairness

----------------------------------------------------------------------------
(* Overlapping runs: customers 1 and 2 of restaurant 1 never visited and    *)
(* both are in the segment of campaign 1, a draft. The dashboard trigger is *)
(* requested more than once (a double click reads draft twice) and two      *)
(* workers run the tasks enqueued.                                          *)

InitOverlap ==
    /\ customers = [c \in CustomerIds |->
           [exists |-> TRUE, restaurant |-> IF c = 3 THEN 2 ELSE 1,
            total_spend_cents |-> 0, last_visit_at |-> NULL]]
    /\ visits = {}
    /\ nextVisitId = 1
    /\ now = 0
    /\ lock = [c \in CustomerIds |-> NoProc]
    /\ rv = [p \in VisitProcs |-> IdleCall]
    /\ ledger = [c \in CustomerIds |-> [calls |-> 0, sum |-> 0, max |-> NULL, contended |-> FALSE]]
    /\ campaigns = [k \in CampaignIds |->
           [restaurant |-> 1, status |-> "draft", segment_type |-> "inactive_days",
            segment_value |-> 0, message_template |-> GoodTemplate]]
    /\ events = {}
    /\ nextEventId = 1
    /\ runs = [r \in RunProcs |-> IdleRun]
    /\ runsStarted = 0
    /\ lastRun = [k \in CampaignIds |-> IdleRun.prev]
    /\ queue = [k \in CampaignIds |-> 0]
    /\ req = [q \in ReqProcs |-> IdleRequest]
    /\ requestsMade = 0

NextOverlap ==
    \/ \E q \in FreeRequest : campaign_run(q, 1)
    \/ \E q \in ReqProcs : SaveStatus(q)
    \/ \E r \in RunProcs : Deliver(r)
    \/ \E r \in RunProcs : LoadCampaign(r)
    \/ \E r \in RunProcs : ResolveSegment(r)
    \/ \E r \in RunProcs : NextBatch(r)
    \/ \E r \in RunProcs : GetEvent(r)
    \/ \E r \in RunProcs : CreateEvent(r)
    \/ \E r \in RunProcs : SendSuccess(r)
    \/ \E r \in RunProcs : SendFailure(r)
    \/ \E r \in RunProcs : FinishRun(r)

SpecOverlap == InitOverlap /\ [][NextOverlap]_vars

----------------------------------------------------------------------------
(* Segmentation: customers 1 and 2 pay visits while the clock advances;    *)
(* then the task resolves the segment of campaign 1, whose kind and value   *)
(* are any of the two known kinds and any value.                            *)

InitSegments ==
    /\ customers = [c \in CustomerIds |->
           [exists |-> c # 3, restaurant |-> 1,
            total_spend_cents |-> 0, last_visit_at |-> NULL]]
    /\ visits = {}
    /\ nextVisitId = 1
    /\ now = 0
    /\ lock = [c \in CustomerIds |-> NoProc]
    /\ rv = [p \in VisitProcs |-> IdleCall]
    /\ ledger = [c \in CustomerIds |-> [calls |-> 0, sum |-> 0, max |-> NULL, contended |-> FALSE]]
    /\ \E t \in {"inactive_days", "high_spenders"}, v \in SegmentValues :
           campaigns = [k \in CampaignIds |->
               [restaurant |-> 1, status |-> "draft", segment_type |-> t,
                segment_value |-> v, message_template |-> GoodTemplate]]
    /\ events = {}
    /\ nextEventId = 1
    /\ runs = [r \in RunProcs |-> IdleRun]
    /\ runsStarted = 0
    /\ lastRun = [k \in CampaignIds |-> IdleRun.prev]
    /\ queue = [k \in CampaignIds |-> 0]
    /\ req = [q \in ReqProcs |-> IdleRequest]
    /\ requestsMade = 0

NextSegments ==
    \/ runs[1].pc = "idle" /\ \E c \in {1, 2}, s \in {1, 2} : AddVisit(1, c, s, NULL)
    \/ RecordVisitLock(1)
    \/ RecordVisitCommit(1)
    \/ runs[1].pc = "idle" /\ Tick
    \/ CallTask(1, 1)
    \/ LoadCampaign(1)
    \/ ResolveSegment(1)

SpecSegments == InitSegments /\ [][NextSegments]_vars

----------------------------------------------------------------------------
(* Claims about the ledger *)

\* C1: after any sequence of record_visit calls on a customer that starts at
\* total_spend_cents = 0 and last_visit_at = null, total_spend_cents is the sum
\* of the spend_cents arguments and last_visit_at the maximum of the visited_at
\* values of the calls made, in whatever order the timestamps arrived.
C1_SumAndMax ==
    \A c \in CustomerIds :
        /\ customers[c].total_spend_cents = ledger[c].sum
        /\ customers[c].last_visit_at = ledger[c].max

\* an earlier timestamp was recorded after a later one
C1_Witness ==
    \E c \in CustomerIds : \E v1, v2 \in VisitsOf(c) :
        /\ v1.id < v2.id
        /\ v2.visited_at < v1.visited_at
        /\ ledger[c].calls = 2
        /\ customers[c].last_visit_at = v1.visited_at

\* C2: under any interleaving of concurrent record_visit calls on one customer
\* the row lock serializes the read-modify-write: at most one call is past its
\* locked read, total_spend_cents is the sum of the spends recorded (no lost
\* update) and there is one Visit row per call.
C2_NoLostUpdate ==
    \A c \in CustomerIds :
        /\ Cardinality({p \in VisitProcs : rv[p].pc = "locked" /\ rv[p].customer = c}) <= 1
        /\ customers[c].total_spend_cents = SumSpend(VisitsOf(c))
        /\ Cardinality(VisitsOf(c)) = ledger[c].calls

\* two calls on one customer overlapped and both have committed
C2_Witness ==
    \E c \in CustomerIds :
        /\ ledger[c].contended
        /\ ledger[c].calls = 2
        /\ customers[c].total_spend_cents = 3

\* C3: in every state reachable through the API, each customer's
\* total_spend_cents is the sum of spend_cents over its Visit rows and its
\* last_visit_at the maximum visited_at over them (null when it has none),
\* and Visit rows come into existence only through record_visit.
C3_AggregatesConsistent ==
    \A c \in CustomerIds :
        customers[c].exists =>
            /\ customers[c].total_spend_cents = SumSpend(VisitsOf(c))
            /\ customers[c].last_visit_at = MaxVisitedAt(VisitsOf(c))
            /\ Cardinality(VisitsOf(c)) = ledger[c].calls

\* C4: only spend_cents >= 0 reaches record_visit, so a customer's
\* total_spend_cents is never negative and never decreases from one state to
\* the next.
C4_TotalMonotone ==
    /\ [](\A c \in CustomerIds : customers[c].total_spend_cents >= 0)
    /\ [][\A c \in CustomerIds :
             customers'[c].total_spend_cents >= customers[c].total_spend_cents]_vars

\* a negative spend was refused after a visit had been recorded
C4_Witness ==
    \E p \in VisitProcs, c \in CustomerIds :
        /\ rv[p].resp = 400
        /\ customers[c].total_spend_cents > 0

----------------------------------------------------------------------------
(* Claims about the pipeline, one execution at a time *)

Finished(r) == runs[r].pc = "done" /\ runs[r].outcome = "completed"

\* the events of the execution's campaign as they were when it began
Before(r) == {e \in runs[r].before : e.campaign = runs[r].campaign_id}

\* C5: there is at most one OutreachEvent row per (campaign, customer), and a
\* run of a campaign that follows a completed run of it and resolves the same
\* customers leaves the number of its events as the earlier run left it.
C5_Idempotent ==
    /\ \A e1, e2 \in events :
           (e1.campaign = e2.campaign /\ e1.customer = e2.customer) => e1 = e2
    /\ \A r \in RunProcs :
           (Finished(r) /\ runs[r].prev.n >= 1 /\ runs[r].prev.seg = RunSegment(runs[r]))
               => Cardinality(EventsOf(runs[r].campaign_id)) = runs[r].prev.count

\* a second run over the same, non-empty segment has completed
C5_Witness ==
    \E r \in RunProcs :
        /\ Finished(r)
        /\ runs[r].prev.n >= 1
        /\ runs[r].prev.seg = RunSegment(runs[r])
        /\ Cardinality(runs[r].prev.seg) = 2
        /\ runs[r].prev.count = 2

\* C6 as claimed: when a run that follows an earlier one completes, every
\* event that was queued or failed when it began has been attempted again, and
\* every event that was sent or skipped is unchanged and was not attempted.
C6_Original ==
    \A r \in RunProcs : \A e \in Before(r) :
        /\ (Finished(r) /\ e.status \in {"queued", "failed"})
               => e.customer \in runs[r].attempted
        /\ (runs[r].pc # "idle" /\ e.status \in {"sent", "skipped"})
               => e \in events /\ e.customer \notin runs[r].attempted

\* C6: when a run that follows an earlier one completes, every event that was
\* queued or failed when it began and whose customer is in the segment this
\* run resolved has been attempted again (rendered, and sent when the
\* template renders); every event that was sent or skipped when it began is
\* unchanged and is not attempted, whether or not the run completes.
C6_Rerun ==
    \A r \in RunProcs : \A e \in Before(r) :
        /\ (Finished(r) /\ e.status \in {"queued", "failed"}
                /\ e.customer \in RunSegment(runs[r]))
               => /\ e.customer \in runs[r].attempted
                  /\ Renders(runs[r].campaign.message_template)
                         => e.customer \in runs[r].sent_to
        /\ (runs[r].pc # "idle" /\ e.status \in {"sent", "skipped"})
               => e \in events /\ e.customer \notin runs[r].attempted

\* a completed re-run found one event failed and one sent, and retried the
\* failed one
C6_Witness ==
    \E r \in RunProcs : \E e1, e2 \in Before(r) :
        /\ Finished(r)
        /\ e1.status = "failed" /\ e1.customer \in runs[r].sent_to
        /\ e2.status = "sent" /\ e2 \in events
        /\ e2.customer \in RunSegment(runs[r])

\* C7: a run of a campaign whose segment_type is neither inactive_days nor
\* high_spenders ends at the segment test: it creates no event, changes no
\* event and leaves the campaign status as it was before the run.
C7_UnknownSegment ==
    \A r \in RunProcs :
        (runs[r].campaign # NoCampaign
            /\ runs[r].campaign.segment_type \notin {"inactive_days", "high_spenders"})
        => /\ runs[r].pc \in {"segment", "done"}
           /\ runs[r].pc = "done" => runs[r].outcome = "unknown_segment"
           /\ events = runs[r].before
           /\ campaigns[runs[r].campaign_id].status = runs[r].start_status

\* such a run has returned, with an event of the campaign on file
C7_Witness ==
    \E r \in RunProcs :
        /\ runs[r].pc = "done"
        /\ runs[r].outcome = "unknown_segment"
        /\ SkippedEarlier \in events
        /\ runsStarted = 2

\* the customers of the campaign's restaurant that matched its segment when
\* the execution resolved it
Matching(r) ==
    LET c == runs[r].campaign
        cutoff == runs[r].snap_now - c.segment_value
    IN  {k \in CustomerIds :
            /\ runs[r].snap[k].exists
            /\ runs[r].snap[k].restaurant = c.restaurant
            /\ c.segment_type = "inactive_days" =>
                   \/ runs[r].snap[k].last_visit_at = NULL
                   \/ runs[r].snap[k].last_visit_at < cutoff
            /\ c.segment_type = "high_spenders" =>
                   runs[r].snap[k].total_spend_cents >= c.segment_value}

\* C8: after one complete run of a campaign that had no events before, the
\* customers holding an event of the campaign are exactly the customers of
\* its restaurant that matched its segment when the run resolved it, and the
\* campaign status is completed.
C8_ExactSegment ==
    \A r \in RunProcs :
        (Finished(r) /\ Before(r) = {})
        => /\ {e.customer : e \in EventsOf(runs[r].campaign_id)} = Matching(r)
           /\ campaigns[runs[r].campaign_id].status = "completed"

\* customer 1 matched and customer 2, of the same restaurant, did not
C8_Witness ==
    \E r \in RunProcs :
        /\ Finished(r)
        /\ Before(r) = {}
        /\ {e.customer : e \in EventsOf(runs[r].campaign_id)} = {1}
        /\ customers[2].restaurant = runs[r].campaign.restaurant

\* C9: a failure while rendering or sending for one customer marks that
\* customer's event failed with the error text and does not leave the loop:
\* the run goes on to every remaining customer of the segment and ends by
\* setting the campaign status to completed.
C9_FailureConfined ==
    \A r \in RunProcs :
        (runs[r].failed_at # {} /\ ~runs[r].escaped)
        => /\ runs[r].pc # "except"
           /\ \A c \in runs[r].failed_at :
                  \E e \in EventsOf(runs[r].campaign_id) :
                      e.customer = c /\ e.status = "failed" /\ e.error_message # NoText
           /\ runs[r].pc = "done" =>
                  /\ runs[r].outcome = "completed"
                  /\ campaigns[runs[r].campaign_id].status = "completed"
                  /\ \A c \in RunSegment(runs[r]) :
                         \/ c \in runs[r].attempted
                         \/ \E e \in Before(r) :
                                e.customer = c /\ e.status \in {"sent", "skipped"}

\* the first customer of the batch failed, the next one was sent to, and the
\* run completed
C9_Witness ==
    \E r \in RunProcs :
        /\ Finished(r)
        /\ runs[r].failed_at = {2}
        /\ \E e \in EventsOf(runs[r].campaign_id) : e.customer = 1 /\ e.status = "sent"
        /\ 1 \in runs[r].attempted

\* C10: when an error escapes the body of a run, the run sets the campaign
\* status to paused unless that write fails, in which case the status stays
\* as it was, and re-raises the error; it does not set completed.
C10_RunLevelError ==
    \A r \in RunProcs :
        runs[r].escaped
        => /\ runs[r].pc \in {"except", "done"}
           /\ runs[r].pc = "done" =>
                  /\ runs[r].outcome = "raised"
                  /\ runs[r].campaign_id \in CampaignIds =>
                         campaigns[runs[r].campaign_id].status =
                             IF runs[r].pause_written THEN "paused" ELSE runs[r].start_status

\* an error escaped after the run had created an event, and the campaign
\* was paused
C10_Witness ==
    \E r \in RunProcs :
        /\ runs[r].pc = "done"
        /\ runs[r].escaped
        /\ runs[r].pause_written
        /\ runs[r].start_status = "draft"
        /\ campaigns[runs[r].campaign_id].status = "paused"
        /\ EventsOf(runs[r].campaign_id) # Before(r)

\* C11: a run invoked with a campaign id that has no row ends at the load: it
\* returns the not-found error to its caller (or re-raises a database error),
\* creates and changes no OutreachEvent and changes no campaign status.
C11_NotFound ==
    \A r \in RunProcs :
        (runs[r].pc # "idle" /\ runs[r].campaign_id \notin CampaignIds)
        => /\ runs[r].pc \in {"load", "except", "done"}
           /\ runs[r].pc = "done" =>
                  runs[r].outcome = IF runs[r].escaped THEN "raised" ELSE "not_found"
           /\ events = runs[r].before
           /\ \A k \in CampaignIds : campaigns[k].status = runs[r].statuses[k]

\* the not-found error was returned by a run that followed a completed run
\* of campaign 1
C11_Witness ==
    \E r \in RunProcs :
        /\ runs[r].pc = "done"
        /\ runs[r].campaign_id = MissingCampaign
        /\ runs[r].outcome = "not_found"
        /\ campaigns[1].status = "completed"
        /\ EventsOf(1) # {}

\* C19: after any sequence of runs every event is in a recorded outcome
\* consistent with its fields: sent implies sent_at is set and error_message
\* is null, failed implies error_message holds the failure reason; and a run
\* that completed leaves no event of a customer of its segment queued.
C19_RecordedOutcome ==
    /\ \A e \in events :
           /\ e.status = "sent" => e.sent_at # NULL /\ e.error_message = NoText
           /\ e.status = "failed" => e.error_message \in {RenderError, SendError, DatabaseError}
    /\ \A r \in RunProcs :
           Finished(r) =>
               \A c \in RunSegment(runs[r]) :
                   \E e \in EventsOf(runs[r].campaign_id) :
                       e.customer = c /\ e.status \in {"sent", "failed", "skipped"}

\* an event that an earlier run left failed, with its error text, is sent by
\* a later run that completed, and its error text is cleared
C19_Witness ==
    \E r \in RunProcs : \E e \in Before(r) : \E f \in events :
        /\ Finished(r)
        /\ e.status = "failed" /\ e.error_message = SendError
        /\ f.id = e.id
        /\ f.status = "sent" /\ f.sent_at # NULL /\ f.error_message = NoText

\* the customers the execution processed whose event it left in a status
LeftIn(r, status) ==
    {c \in runs[r].attempted :
        \E e \in EventsOf(runs[r].campaign_id) : e.customer = c /\ e.status = status}

\* C22: the result returned by a run that completes satisfies
\* total_processed = total_sent + total_failed, where total_processed is the
\* number of segment customers whose event was not already sent or skipped
\* when the run reached it, and total_sent and total_failed are the numbers
\* of those events the run left in status sent and failed.
C22_CountsAddUp ==
    \A r \in RunProcs :
        Finished(r)
        => /\ runs[r].total_processed = runs[r].total_sent + runs[r].total_failed
           /\ runs[r].total_processed = Cardinality(runs[r].attempted)
           /\ runs[r].total_sent = Cardinality(LeftIn(r, "sent"))
           /\ runs[r].total_failed = Cardinality(LeftIn(r, "failed"))

----------------------------------------------------------------------------
(* Claims about the requests on a campaign *)

\* the statuses in which a request of each kind is to be accepted
Acceptable(view, status) ==
    IF view \in {"api_run", "run"} THEN status \in {"draft", "paused"}
    ELSE IF view = "resume" THEN status = "paused"
    ELSE view = "pause" /\ status = "running"

\* C12: a trigger request (API run, dashboard run) is accepted only when the
\* campaign status it reads is draft or paused, a resume request only when it
\* is paused and a pause request only when it is running; the step that
\* rejects a request changes no campaign and enqueues no run.
C12_Acceptance ==
    [][\A q \in ReqProcs :
          (req[q].pc = "idle" /\ req'[q] # req[q])
          => LET view == req'[q].view
                 status == campaigns[req'[q].campaign_id].status
             IN  /\ req'[q].pc = "save" => Acceptable(view, status)
                 /\ req'[q].pc = "idle" =>
                        /\ ~Acceptable(view, status)
                        /\ req'[q].resp = "rejected"
                        /\ campaigns' = campaigns
                        /\ queue' = queue]_vars

\* a trigger was accepted and a second one rejected: the campaign is
\* running and has one run, enqueued or begun
C12_Witness ==
    \E q \in ReqProcs :
        /\ req[q].resp = "rejected"
        /\ req[q].view \in {"api_run", "run"}
        /\ requestsMade = 2
        /\ campaigns[1].status = "running"
        /\ queue[1] + runsStarted = 1

\* C13: in every interleaving of trigger, pause and resume requests with
\* the runs of the pipeline, the status of a campaign changes only along
\* draft -> running, running -> completed, running -> paused and
\* paused -> running: completed is never followed by another status and
\* paused is never overwritten by completed.
C13_StatusMachine ==
    [][\A k \in CampaignIds :
          campaigns'[k].status # campaigns[k].status
          => <<campaigns[k].status, campaigns'[k].status>> \in
                 {<<"draft", "running">>, <<"running", "completed">>,
                  <<"running", "paused">>, <<"paused", "running">>}]_vars

\* C17: once a pause request has been accepted for a running campaign, the
\* run in flight starts no further batch (and so sends to no customer of a
\* later batch), and the campaign status stays paused until a resume or
\* trigger request writes running.
C17_PauseObserved ==
    [][\A r \in RunProcs :
          runs[r].pause_requested
          => LET cid == runs[r].campaign_id IN
             /\ ~(runs[r].pc = "batch" /\ runs'[r].pc = "event")
             /\ (campaigns[cid].status = "paused" /\ campaigns'[cid].status # "paused")
                    => /\ campaigns'[cid].status = "running"
                       /\ \E q \in ReqProcs : req[q].pc = "save" /\ req'[q].pc = "idle"]_vars

\* C21: every accepted trigger or resume request is eventually followed by
\* the campaign leaving status running: when the worker executes every run
\* enqueued and every run terminates, a campaign that is running ends in
\* completed or paused, in every ordering of the view's status write and the
\* task's execution.
C21_LeavesRunning ==
    (campaigns[1].status = "running") ~> (campaigns[1].status \in {"completed", "paused"})

----------------------------------------------------------------------------
(* Claims about overlapping runs *)

\* C14: when two runs of one campaign overlap, in any interleaving, the
\* get-or-create keyed by (campaign, customer) leaves at most one
\* OutreachEvent row per key, and a run whose insert met the other's row goes
\* on with that row: no run is aborted.
C14_OneRowPerKey ==
    /\ \A e1, e2 \in events :
           (e1.campaign = e2.campaign /\ e1.customer = e2.customer) => e1.id = e2.id
    /\ \A r \in RunProcs :
           /\ runs[r].pc # "except"
           /\ runs[r].outcome # "raised"
           /\ (runs[r].collided /\ runs[r].pc = "done") => runs[r].outcome = "completed"

\* both runs completed, one of them after its insert had met the other's row
C14_Witness ==
    /\ \A r \in RunProcs : Finished(r) /\ runs[r].campaign_id = 1
    /\ \E r \in RunProcs : runs[r].collided
    /\ Cardinality(EventsOf(1)) = 2

----------------------------------------------------------------------------
(* Claims about the segmentation *)

Existing == {c \in CustomerIds : customers[c].exists}

\* the execution has resolved a segment of the given kind
Resolved(r, segment_type) ==
    /\ runs[r].pc = "batch"
    /\ runs[r].campaign.segment_type = segment_type

\* C15: inactive_days(customers, days) returns exactly the customers whose
\* last_visit_at is null or strictly earlier than now minus days: a customer
\* with null last_visit_at is included for every days, one whose
\* last_visit_at equals the cutoff or is later is excluded; and the task
\* resolves an inactive_days campaign to that set.
C15_InactiveDays ==
    /\ \A days \in SegmentValues : \A Q \in SUBSET Existing :
           LET result == inactive_days(Q, days) IN
           /\ result \subseteq Q
           /\ \A c \in Q :
                  /\ customers[c].last_visit_at = NULL => c \in result
                  /\ (customers[c].last_visit_at # NULL
                         /\ customers[c].last_visit_at < now - days) => c \in result
                  /\ (customers[c].last_visit_at # NULL
                         /\ customers[c].last_visit_at >= now - days) => c \notin result
    /\ \A r \in RunProcs :
           Resolved(r, "inactive_days") =>
               RunSegment(runs[r]) =
                   {c \in CustomerIds :
                       /\ runs[r].snap[c].exists
                       /\ \/ runs[r].snap[c].last_visit_at = NULL
                          \/ runs[r].snap[c].last_visit_at
                                 < runs[r].snap_now - runs[r].campaign.segment_value}

\* the task resolved a segment that leaves out a customer who visited
\* exactly at the cutoff and takes in one who never visited
C15_Witness ==
    \E r \in RunProcs : \E c1, c2 \in CustomerIds :
        /\ Resolved(r, "inactive_days")
        /\ runs[r].snap[c1].last_visit_at # NULL
        /\ runs[r].snap[c1].last_visit_at = runs[r].snap_now - runs[r].campaign.segment_value
        /\ c1 \notin RunSegment(runs[r])
        /\ runs[r].snap[c2].exists
        /\ runs[r].snap[c2].last_visit_at = NULL
        /\ c2 \in RunSegment(runs[r])

\* C16: high_spenders(customers, min) returns exactly the customers with
\* total_spend_cents >= min: a total equal to min is included, a total of
\* min - 1 is excluded, for every min; and the task resolves a high_spenders
\* campaign to that set.
C16_HighSpenders ==
    /\ \A min \in SegmentValues : \A Q \in SUBSET Existing :
           LET result == high_spenders(Q, min) IN
           /\ result \subseteq Q
           /\ \A c \in Q :
                  /\ customers[c].total_spend_cents = min => c \in result
                  /\ customers[c].total_spend_cents = min - 1 => c \notin result
                  /\ c \in result <=> customers[c].total_spend_cents >= min
    /\ \A r \in RunProcs :
           Resolved(r, "high_spenders") =>
               RunSegment(runs[r]) =
                   {c \in CustomerIds :
                       /\ runs[r].snap[c].exists
                       /\ runs[r].snap[c].total_spend_cents >= runs[r].campaign.segment_value}

\* the task resolved a segment with a customer whose total is the minimum
\* and without one whose total is one less
C16_Witness ==
    \E r \in RunProcs : \E c1, c2 \in CustomerIds :
        /\ Resolved(r, "high_spenders")
        /\ runs[r].snap[c1].total_spend_cents = runs[r].campaign.segment_value
        /\ c1 \in RunSegment(runs[r])
        /\ runs[r].snap[c2].exists
        /\ runs[r].snap[c2].total_spend_cents = runs[r].campaign.segment_value - 1
        /\ c2 \notin RunSegment(runs[r])
        /\ runs[r].campaign.segment_value = 2

\* C18: the only status changes the pipeline makes to an OutreachEvent are
\* queued -> sent, queued -> failed and failed -> sent (failed may be written
\* again); in every execution, overlapping runs of one campaign included, an
\* event that is sent or skipped never changes status again, and no event
\* becomes skipped.
C18_EventStatusMachine ==
    [][\A e \in events : \A f \in events' :
          f.id = e.id
          => /\ f.status # e.status
                    => <<e.status, f.status>> \in
                           {<<"queued", "sent">>, <<"queued", "failed">>, <<"failed", "sent">>}
             /\ e.status \in {"sent", "skipped"} => f.status = e.status
             /\ f.status = "skipped" => e.status = "skipped"]_vars

\* C20: across the runs of one campaign, sequential or overlapping, each
\* customer receives at most one successful send: no run attempts a send for
\* an event that is already marked sent.
C20_AtMostOneSend ==
    [][\A r \in RunProcs :
          runs'[r].sent_to # runs[r].sent_to
          => \A e \in events : e.id = runs[r].event.id => e.status # "sent"]_vars

====
